---- MODULE Spec2Model ----
(***************************************************************************)
(* Model of src/github.ts: the two webhook handlers                        *)
(* handlePullRequestEvent and handlePullRequestCommentEvent, with the      *)
(* helpers they call (fetchChangedFilesData, fetchFullFileContent,         *)
(* aggregateASTReport, postComment).                                       *)
(*                                                                         *)
(* Strings built by template literals are modelled as sequences of tokens  *)
(* (the literal pieces and the interpolated values, in order); a comment   *)
(* body is a sequence of characters.  Every await is a suspension point:   *)
(* pc[e] names the call event e is waiting for, and an action is the code  *)
(* that runs from one response up to the next call.                        *)
(***************************************************************************)
EXTENDS Integers, Sequences, FiniteSets, TLC

\* ------------------------------------------------------------------ bounds

MaxEvents == 2
MaxComments == 32
LongBody == 503
MaxTextLen == 3
WrapAt == 4

\* ------------------------------------------------------- program constants

SliceCount == 30
BodyLimit == 500
PerPage == 100

BotLogin == "pga-github-app"
ApiVersion == "2022-11-28"

\* --------------------------------------------------------------- utilities

Min(a, b) == IF a < b THEN a ELSE b
Max(a, b) == IF a > b THEN a ELSE b

Events == 1..MaxEvents

\* String.prototype.substring(start, end) on a sequence of characters
\* (0-based, end exclusive, end clamped to the length).
Substring(s, start, end) == SubSeq(s, start + 1, Min(end, Len(s)))

\* Array.prototype.slice(start): a negative start counts from the end.
Slice(arr, start) ==
    LET k == IF start < 0 THEN Max(Len(arr) + start, 0) ELSE Min(start, Len(arr))
    IN  SubSeq(arr, k + 1, Len(arr))

\* Array.prototype.join(sep) over an array of token sequences.
RECURSIVE Join(_, _)
Join(arr, sep) ==
    IF Len(arr) = 0 THEN << >>
    ELSE IF Len(arr) = 1 THEN arr[1]
    ELSE arr[1] \o << sep >> \o Join(Tail(arr), sep)

\* ------------------------------------------------------ webhook payloads
\* PRWebhookPayload: installation.id, repository.owner.login and
\* repository.name are always there; pull_request, issue and comment are
\* optional.  A repository name is a sequence of characters.

RepoA == << "p", "g" >>
RepoB == << "x" >>

BasePayload(inst, login, name) ==
    [installation |-> [id |-> inst],
     repository |-> [owner |-> [login |-> login], name |-> name]]

PayloadOpened == BasePayload(11, "octo", RepoA) @@ [pull_request |-> [number |-> 7]]
PayloadComment ==
    BasePayload(11, "octo", RepoA)
        @@ [issue |-> [number |-> 7], comment |-> [body |-> "why?"]]
PayloadNoBody == BasePayload(12, "acme", RepoB) @@ [issue |-> [number |-> 8]]
PayloadBare == BasePayload(12, "acme", RepoB)

Payloads == { PayloadOpened, PayloadComment, PayloadNoBody, PayloadBare }

\* ------------------------------------------------------ platform responses

\* Entries of the pulls.listFiles response; patch is absent for binary files.
ApiFileA ==
    [filename |-> "a.ts", status |-> "modified", additions |-> 3, deletions |-> 1,
     changes |-> 4, patch |-> "@@ -1 +1 @@", sha |-> "s1"]
ApiFileB ==
    [filename |-> "b.png", status |-> "added", additions |-> 0, deletions |-> 0,
     changes |-> 0, sha |-> "s2"]

FileNames == { "a.ts", "b.png" }

Listings == { << >>, << ApiFileA >>, << ApiFileA, ApiFileB >>, << ApiFileB, ApiFileA >> }

\* Error values a rejected call can carry: an Error instance or any other
\* thrown value.
ErrorInstances == { "RequestError" }
OtherThrown == { "rejected-value" }
Thrown == ErrorInstances \cup OtherThrown
NoError == "none"

IsErrorInstance(error) == error \in ErrorInstances

\* Texts the feedback generator can return.
Texts == { "LGTM", "needs work" }

\* The comment thread of an issue as issues.listComments returns it, oldest
\* first: comment i of the thread.  user and body are optional fields.
BodyOf(i, len) == [j \in 1..len |-> IF j = 1 THEN 1000 + i ELSE j]

BodyLenOf(i) ==
    CASE i % 7 = 2 -> 0
      [] i % 7 = 3 -> 3
      [] i % 7 = 4 -> BodyLimit - 1
      [] i % 7 = 5 -> BodyLimit
      [] i % 7 = 6 -> BodyLimit + 1
      [] OTHER -> LongBody

LoginOf(i) ==
    CASE i % 4 = 0 -> BotLogin
      [] i % 4 = 1 -> "alice"
      [] OTHER -> "bob"

CommentOf(i) ==
    [id |-> i]
        @@ (IF i % 4 = 2 THEN << >> ELSE [user |-> [login |-> LoginOf(i)]])
        @@ (IF i % 7 = 1 THEN << >> ELSE [body |-> BodyOf(i, BodyLenOf(i))])

Thread(n) == [i \in 1..n |-> CommentOf(i)]

ThreadLens == { 0, 1, 2, SliceCount - 1, SliceCount, SliceCount + 1, MaxComments }

\* ------------------------------------------------ fetchChangedFilesData

\* The fields files.map keeps of each entry of the listFiles response.
ChangedFileFields == { "filename", "status", "additions", "deletions", "changes", "patch" }

ChangedFileRecord(file) == [k \in (DOMAIN file \cap ChangedFileFields) |-> file[k]]

MapChangedFiles(files) == [i \in 1..Len(files) |-> ChangedFileRecord(files[i])]

\* ------------------------------------------------- fetchFullFileContent
\* Base64 text is a sequence of symbols: 0..63 are the alphabet's sextets,
\* 64 is the padding "=", anything above is a character outside the
\* alphabet (a line break).  Bytes are 0..255, text is a sequence of code
\* points.

RECURSIVE UpToPad(_)
UpToPad(s) ==
    IF Len(s) = 0 \/ Head(s) = 64 THEN << >> ELSE << Head(s) >> \o UpToPad(Tail(s))

IsSextet(c) == c < 64

RECURSIVE SextetsToBytes(_)
SextetsToBytes(x) ==
    IF Len(x) >= 4 THEN
        LET n == x[1] * 262144 + x[2] * 4096 + x[3] * 64 + x[4]
        IN  << n \div 65536, (n \div 256) % 256, n % 256 >>
                \o SextetsToBytes(SubSeq(x, 5, Len(x)))
    ELSE IF Len(x) = 3 THEN
        LET n == x[1] * 4096 + x[2] * 64 + x[3]
        IN  << n \div 1024, (n \div 4) % 256 >>
    ELSE IF Len(x) = 2 THEN << (x[1] * 64 + x[2]) \div 16 >>
    ELSE << >>

\* Buffer.from(content, "base64")
BufferFromBase64(content) == SextetsToBytes(SelectSeq(UpToPad(content), IsSextet))

IsCont(b) == b >= 128 /\ b <= 191

\* The range the second byte of a multi-byte sequence must lie in.
SecondOk(lead, b) ==
    CASE lead = 224 -> b >= 160 /\ b <= 191
      [] lead = 237 -> b >= 128 /\ b <= 159
      [] lead = 240 -> b >= 144 /\ b <= 191
      [] lead = 244 -> b >= 128 /\ b <= 143
      [] OTHER -> IsCont(b)

\* buffer.toString("utf8"): an ill-formed subsequence decodes to U+FFFD.
RECURSIVE Utf8ToString(_)
Utf8ToString(bytes) ==
    IF Len(bytes) = 0 THEN << >>
    ELSE
        LET b == bytes[1]
            n == Len(bytes)
            need == IF b < 128 THEN 0
                    ELSE IF b >= 194 /\ b <= 223 THEN 1
                    ELSE IF b >= 224 /\ b <= 239 THEN 2
                    ELSE IF b >= 240 /\ b <= 244 THEN 3
                    ELSE 4
            rest(k) == Utf8ToString(SubSeq(bytes, k + 1, n))
        IN  IF need = 0 THEN << b >> \o rest(1)
            ELSE IF need = 4 THEN << 65533 >> \o rest(1)
            ELSE IF n < 2 \/ ~SecondOk(b, bytes[2]) THEN << 65533 >> \o rest(1)
            ELSE IF need = 1 THEN << (b - 192) * 64 + (bytes[2] - 128) >> \o rest(2)
            ELSE IF n < 3 \/ ~IsCont(bytes[3]) THEN << 65533 >> \o rest(2)
            ELSE IF need = 2 THEN
                << (b - 224) * 4096 + (bytes[2] - 128) * 64 + (bytes[3] - 128) >> \o rest(3)
            ELSE IF n < 4 \/ ~IsCont(bytes[4]) THEN << 65533 >> \o rest(3)
            ELSE << (b - 240) * 262144 + (bytes[2] - 128) * 4096
                        + (bytes[3] - 128) * 64 + (bytes[4] - 128) >> \o rest(4)

Returned(value) == [ok |-> TRUE, value |-> value]
Threw(error) == [ok |-> FALSE, error |-> error]

\* fetchFullFileContent without the Array.isArray test: a directory listing
\* has no type and falls through to the last throw.
FetchFullFileContentNoArrayTest(response, path) ==
    IF response.kind = "rejected" THEN Threw(response.error)
    ELSE IF response.kind = "string" THEN Returned(response.text)
    ELSE IF response.kind = "object" /\ response.type = "file"
                /\ "content" \in DOMAIN response /\ Len(response.content) > 0
        THEN Returned(Utf8ToString(BufferFromBase64(response.content)))
    ELSE Threw(<< "Unable to fetch file content as string for path: ", path >>)

\* The data of a repos.getContent response is a string (raw text), an array
\* (a directory listing) or an object; a rejected request carries its error.
FetchFullFileContent(response, path) ==
    IF response.kind = "rejected" THEN Threw(response.error)
    ELSE IF response.kind = "string" THEN Returned(response.text)
    ELSE IF response.kind = "array"
        THEN Threw(<< "Expected a file but received a directory for path: ", path >>)
    ELSE IF response.type = "file" /\ "content" \in DOMAIN response
                /\ Len(response.content) > 0
        THEN Returned(Utf8ToString(BufferFromBase64(response.content)))
    ELSE Threw(<< "Unable to fetch file content as string for path: ", path >>)

\* Responses the platform can give for a path.
TextResponse == [kind |-> "string", text |-> << 108, 101, 116 >>]
DirResponse == [kind |-> "array"]
EncodedResponse ==
    [kind |-> "object", type |-> "file", content |-> << 26, 6, 36, 64, 65 >>]
EmptyFileResponse == [kind |-> "object", type |-> "file", content |-> << >>]
NotFoundResponse == [kind |-> "rejected", error |-> "RequestError"]

\* ---------------------------------------------------- parseCode (external)
\* parseCode(content).rootNode.toString(): a dump of the tree of the text,
\* or an exception for the texts the parser rejects.
AstString(content) == << "(program ", content, ")" >>

\* ---------------------------------------------------- aggregateASTReport

\* The section a file adds to rawCode or astReport; FENCE stands for the
\* three backquotes of a Markdown code fence.
Section(filename, body) == << "### ", filename, "\nFENCE\n", body, "\nFENCE\n\n" >>

\* The filenames of the sections of an aggregated string, in order.
SectionNames(report) == [i \in 1..(Len(report) \div 5) |-> report[5 * (i - 1) + 2]]

\* The formal parameters of aggregateASTReport, in order (octokit is
\* commented out of the list), and the names its body can resolve.
AggregateParams == << "owner", "repo", "changedFilesData" >>

AggregateLocals == { "rawCode", "astReport", "file", "content", "tree", "astString", "error" }

ModuleBindings ==
    { "App", "Octokit", "fs", "axios", "extractCleanCodeFromDiff", "config", "parseCode",
      "generateCodeFeedback", "generateFollowUpResponse", "callGPT", "preparePrompt",
      "privateKey", "app", "fetchChangedFilesData", "fetchFullFileContent",
      "aggregateASTReport", "postComment", "handlePullRequestEvent",
      "handlePullRequestCommentEvent", "console", "Buffer", "Array", "Error" }

InAggregateScope(name) ==
    \/ \E i \in 1..Len(AggregateParams) : AggregateParams[i] = name
    \/ name \in AggregateLocals \cup ModuleBindings

ReferenceError(name) == << "ReferenceError: ", name, " is not defined" >>

\* Values handed to a call, tagged with their JavaScript type.
JsObject(v) == [type |-> "object", val |-> v]
JsString(v) == [type |-> "string", val |-> v]
JsArray(v) == [type |-> "array", val |-> v]

\* The value a formal parameter is bound to: the argument at its position.
ParamValue(params, args, name) ==
    args[CHOOSE i \in 1..Len(params) : params[i] = name]

\* for (const file of v): the elements of an array, the characters of a string.
ForOf(v) ==
    IF v.type = "string" THEN [i \in 1..Len(v.val) |-> JsString(<< v.val[i] >>)]
    ELSE [i \in 1..Len(v.val) |-> JsObject(v.val[i])]

\* file.filename
FilenameOf(file) ==
    IF file.type = "object" /\ "filename" \in DOMAIN file.val
    THEN file.val.filename
    ELSE "undefined"

\* ------------------------------------------ previousComments (context)

\* The callback without the cap on the body.
FormatCommentUncapped(comment) ==
    LET hasUser == "user" \in DOMAIN comment
        hasBody == "body" \in DOMAIN comment
        isBot == hasUser /\ comment.user.login = BotLogin
        prefix == IF isBot THEN "[BOT RESPONSE]" ELSE "[USER]"
        username == IF hasUser /\ comment.user.login # "" THEN comment.user.login
                    ELSE "unknown"
        body == IF hasBody THEN comment.body ELSE << >>
        ellipsis == IF hasBody /\ Len(comment.body) # 0 /\ Len(comment.body) > BodyLimit
                    THEN "..."
                    ELSE ""
    IN  << prefix, " ", username, ": ", body, ellipsis >>

\* The callback with the marker decided by >= instead of >.
FormatCommentMarksAtLimit(comment) ==
    LET hasUser == "user" \in DOMAIN comment
        hasBody == "body" \in DOMAIN comment
        isBot == hasUser /\ comment.user.login = BotLogin
        prefix == IF isBot THEN "[BOT RESPONSE]" ELSE "[USER]"
        username == IF hasUser /\ comment.user.login # "" THEN comment.user.login
                    ELSE "unknown"
        body == IF hasBody /\ Len(Substring(comment.body, 0, BodyLimit)) > 0
                THEN Substring(comment.body, 0, BodyLimit)
                ELSE << >>
        ellipsis == IF hasBody /\ Len(comment.body) # 0 /\ Len(comment.body) >= BodyLimit
                    THEN "..."
                    ELSE ""
    IN  << prefix, " ", username, ": ", body, ellipsis >>

\* The callback labelling a comment without author as the bot's.
FormatCommentMissingIsBot(comment) ==
    LET hasUser == "user" \in DOMAIN comment
        hasBody == "body" \in DOMAIN comment
        isBot == ~hasUser \/ comment.user.login = BotLogin
        prefix == IF isBot THEN "[BOT RESPONSE]" ELSE "[USER]"
        username == IF hasUser /\ comment.user.login # "" THEN comment.user.login
                    ELSE "unknown"
        body == IF hasBody /\ Len(Substring(comment.body, 0, BodyLimit)) > 0
                THEN Substring(comment.body, 0, BodyLimit)
                ELSE << >>
        ellipsis == IF hasBody /\ Len(comment.body) # 0 /\ Len(comment.body) > BodyLimit
                    THEN "..."
                    ELSE ""
    IN  << prefix, " ", username, ": ", body, ellipsis >>

\* The callback without its fallbacks: a missing login or body is rendered
\* by the template as the text of undefined.
FormatCommentNoFallback(comment) ==
    LET hasUser == "user" \in DOMAIN comment
        hasBody == "body" \in DOMAIN comment
        isBot == hasUser /\ comment.user.login = BotLogin
        prefix == IF isBot THEN "[BOT RESPONSE]" ELSE "[USER]"
        username == IF hasUser THEN comment.user.login ELSE "undefined"
        body == IF hasBody THEN Substring(comment.body, 0, BodyLimit) ELSE << "undefined" >>
        ellipsis == IF hasBody /\ Len(comment.body) # 0 /\ Len(comment.body) > BodyLimit
                    THEN "..."
                    ELSE ""
    IN  << prefix, " ", username, ": ", body, ellipsis >>

\* The entry the map callback renders for one comment.
FormatComment(comment) ==
    LET hasUser == "user" \in DOMAIN comment
        hasBody == "body" \in DOMAIN comment
        isBot == hasUser /\ comment.user.login = BotLogin
        prefix == IF isBot THEN "[BOT RESPONSE]" ELSE "[USER]"
        username == IF hasUser /\ comment.user.login # "" THEN comment.user.login
                    ELSE "unknown"
        body == IF hasBody /\ Len(Substring(comment.body, 0, BodyLimit)) > 0
                THEN Substring(comment.body, 0, BodyLimit)
                ELSE << >>
        ellipsis == IF hasBody /\ Len(comment.body) # 0 /\ Len(comment.body) > BodyLimit
                    THEN "..."
                    ELSE ""
    IN  << prefix, " ", username, ": ", body, ellipsis >>

\* comments.slice(0, 30): the oldest comments instead of the most recent.
ContextWindowOldest(comments) == SubSeq(comments, 1, Min(SliceCount, Len(comments)))

\* comments.slice(-30)
ContextWindow(comments) == Slice(comments, 0 - SliceCount)

FormatComments(comments) ==
    LET window == ContextWindow(comments)
    IN  Join([i \in 1..Len(window) |-> FormatComment(window[i])], "\n\n")

\* The entries of a transcript: six tokens each, one separator between two.
EntryCount(transcript) == (Len(transcript) + 1) \div 7
Entry(transcript, k) == SubSeq(transcript, 7 * (k - 1) + 1, 7 * (k - 1) + 6)
EntryBody(transcript, k) == transcript[7 * (k - 1) + 5]
EntryMarker(transcript, k) == transcript[7 * (k - 1) + 6]

\* ------------------------------------------------------------------ state

VARIABLES
    pc,                 \* per event: the call it awaits, or idle/done/failed/absent
    handler,            \* per event: "pr" or "comment", the handler invoked
    payload,            \* per event: the webhook payload
    octokit,            \* per event: the installation client (its installation id)
    pullRequest,        \* per event: data of pulls.get
    comments,           \* per event: data of issues.listComments
    changedFilesData,   \* per event: result of fetchChangedFilesData
    idx,                \* per event: position of the for-of loop of aggregateASTReport
    rawCode,            \* per event: accumulator, then the handler's rawCode
    astReport,          \* per event: accumulator, then the handler's astReport
    previousComments,   \* per event: the transcript
    feedback,           \* per event: the generator's text
    calls,              \* per event: the external calls issued, in order
    log,                \* per event: what went to console.log / console.error
    raised,             \* per event: the error a rejected call carried
    failedAt,           \* per event: the call that was awaited when it failed
    thrown,             \* per event: the error the handler's promise rejects with
    settled,            \* per event: how many of its calls have resolved or rejected
    repoState,          \* the platform: how each path's content resolves and parses
    fetch               \* a direct call of fetchFullFileContent: response and result

locals == << octokit, pullRequest, comments, changedFilesData, idx, rawCode, astReport,
             previousComments, feedback >>
outcome == << raised, failedAt, thrown >>
vars == << pc, handler, payload, locals, calls, settled, log, outcome, repoState, fetch >>

Undefined == "undefined"

\* const pullRequest before pulls.get has resolved.
NoPullRequest == [state |-> Undefined]

\* No direct call of fetchFullFileContent is under way.
NoFetch == [state |-> "none"]

\* const owner / repo / pull_number / userComment of the handlers
Owner(e) == payload[e].repository.owner.login
Repo(e) == payload[e].repository.name
\* pull_number read from the issue field in both handlers.
PullNumberFromIssue(e) ==
    IF "issue" \in DOMAIN payload[e] THEN payload[e].issue.number ELSE 0

\* payload.pull_request?.number ?? 0 and payload.issue?.number ?? 0
PullNumber(e) ==
    IF handler[e] = "pr"
    THEN (IF "pull_request" \in DOMAIN payload[e] THEN payload[e].pull_request.number ELSE 0)
    ELSE (IF "issue" \in DOMAIN payload[e] THEN payload[e].issue.number ELSE 0)
UserComment(e) == IF "comment" \in DOMAIN payload[e] THEN payload[e].comment.body ELSE ""

\* How the platform resolves a path and whether the parser accepts its text.
RepoStates ==
    { [content |-> [f \in FileNames |-> TextResponse], unparsable |-> {}],
      [content |-> [f \in FileNames |-> IF f = "a.ts" THEN TextResponse ELSE DirResponse],
       unparsable |-> {}],
      [content |-> [f \in FileNames |-> IF f = "a.ts" THEN NotFoundResponse ELSE EncodedResponse],
       unparsable |-> {}],
      [content |-> [f \in FileNames |-> TextResponse], unparsable |-> { "b.png" }] }

GetContent(path) ==
    IF path \in FileNames THEN repoState.content[path] ELSE NotFoundResponse

ParseThrows(path) == path \in repoState.unparsable

Init ==
    /\ pc = [e \in Events |-> IF e = 1 THEN "idle" ELSE "absent"]
    /\ handler = [e \in Events |-> Undefined]
    /\ payload \in [Events -> Payloads]
    /\ \A e \in Events : pc[e] = "absent" => payload[e] = PayloadBare
    /\ octokit = [e \in Events |-> 0]
    /\ pullRequest = [e \in Events |-> NoPullRequest]
    /\ comments = [e \in Events |-> << >>]
    /\ changedFilesData = [e \in Events |-> << >>]
    /\ idx = [e \in Events |-> 0]
    /\ rawCode = [e \in Events |-> << >>]
    /\ astReport = [e \in Events |-> << >>]
    /\ previousComments = [e \in Events |-> << >>]
    /\ feedback = [e \in Events |-> Undefined]
    /\ calls = [e \in Events |-> << >>]
    /\ log = [e \in Events |-> << >>]
    /\ raised = [e \in Events |-> NoError]
    /\ failedAt = [e \in Events |-> "nowhere"]
    /\ thrown = [e \in Events |-> NoError]
    /\ settled = [e \in Events |-> 0]
    /\ repoState \in RepoStates
    /\ fetch = NoFetch

\* ---------------------------------------------------------------- actions

Issue(e, call) == calls' = [calls EXCEPT ![e] = Append(@, call)]

\* The call the event awaits resolves or rejects.
Settle(e) == settled' = [settled EXCEPT ![e] = @ + 1]

Console(e, entry) == log' = [log EXCEPT ![e] = Append(@, entry)]

\* fetchChangedFilesData(octokit, owner, repo, pull_number) issues listFiles.
ListFilesCall(e, client) ==
    [op |-> "pulls.listFiles", octokit |-> client, owner |-> Owner(e), repo |-> Repo(e),
     pull_number |-> PullNumber(e), per_page |-> PerPage]

\* A createComment call that loses the generated text.
CreateCommentCallEmptyBody(client, owner, repo, issue_number, body) ==
    [op |-> "issues.createComment", octokit |-> client, owner |-> owner, repo |-> repo,
     issue_number |-> issue_number, body |-> "", apiVersion |-> ApiVersion]

\* postComment(octokit, owner, repo, issue_number, body)
CreateCommentCall(client, owner, repo, issue_number, body) ==
    [op |-> "issues.createComment", octokit |-> client, owner |-> owner, repo |-> repo,
     issue_number |-> issue_number, body |-> body, apiVersion |-> ApiVersion]

\* The handler is invoked with the payload; it runs up to its first await,
\* app.getInstallationOctokit(payload.installation.id).
HandlePullRequestEvent(e) ==
    /\ pc[e] = "idle"
    /\ UNCHANGED settled
    /\ handler' = [handler EXCEPT ![e] = "pr"]
    /\ Issue(e, [op |-> "getInstallationOctokit", id |-> payload[e].installation.id])
    /\ pc' = [pc EXCEPT ![e] = "awaitOctokit"]
    /\ UNCHANGED << payload, locals, log, outcome, repoState, fetch >>

HandlePullRequestCommentEvent(e) ==
    /\ pc[e] = "idle"
    /\ UNCHANGED settled
    /\ handler' = [handler EXCEPT ![e] = "comment"]
    /\ Console(e, [level |-> "log", msg |-> << "Handling a pull request comment event." >>])
    /\ Issue(e, [op |-> "getInstallationOctokit", id |-> payload[e].installation.id])
    /\ pc' = [pc EXCEPT ![e] = "awaitOctokit"]
    /\ UNCHANGED << payload, locals, outcome, repoState, fetch >>

\* getInstallationOctokit resolves: the consts are read from the payload and
\* the try block issues its first call.
OctokitResolved(e) ==
    /\ pc[e] = "awaitOctokit"
    /\ Settle(e)
    /\ octokit' = [octokit EXCEPT ![e] = payload[e].installation.id]
    /\ IF handler[e] = "pr"
       THEN /\ Issue(e, ListFilesCall(e, octokit'[e]))
            /\ pc' = [pc EXCEPT ![e] = "awaitListFiles"]
       ELSE /\ Issue(e, [op |-> "pulls.get", octokit |-> octokit'[e], owner |-> Owner(e),
                         repo |-> Repo(e), pull_number |-> PullNumber(e)])
            /\ pc' = [pc EXCEPT ![e] = "awaitGetPR"]
    /\ UNCHANGED << handler, payload, pullRequest, comments, changedFilesData, idx, rawCode,
                    astReport, previousComments, feedback, log, outcome, repoState, fetch >>

\* getInstallationOctokit rejects: the await is outside the try block, so the
\* handler's promise rejects with the error and nothing is logged.
OctokitRejected(e, error) ==
    /\ pc[e] = "awaitOctokit"
    /\ Settle(e)
    /\ raised' = [raised EXCEPT ![e] = error]
    /\ failedAt' = [failedAt EXCEPT ![e] = pc[e]]
    /\ thrown' = [thrown EXCEPT ![e] = error]
    /\ pc' = [pc EXCEPT ![e] = "failed"]
    /\ UNCHANGED << handler, payload, locals, calls, log, repoState, fetch >>

PullsGetResolved(e) ==
    /\ pc[e] = "awaitGetPR"
    /\ Settle(e)
    /\ pullRequest' = [pullRequest EXCEPT ![e] = [number |-> PullNumber(e), state |-> "open"]]
    /\ Issue(e, [op |-> "issues.listComments", octokit |-> octokit[e], owner |-> Owner(e),
                 repo |-> Repo(e), issue_number |-> PullNumber(e)])
    /\ pc' = [pc EXCEPT ![e] = "awaitListComments"]
    /\ UNCHANGED << handler, payload, octokit, comments, changedFilesData, idx, rawCode,
                    astReport, previousComments, feedback, log, outcome, repoState, fetch >>

ListCommentsResolved(e, n) ==
    /\ pc[e] = "awaitListComments"
    /\ Settle(e)
    /\ comments' = [comments EXCEPT ![e] = Thread(n)]
    /\ Issue(e, ListFilesCall(e, octokit[e]))
    /\ pc' = [pc EXCEPT ![e] = "awaitListFiles"]
    /\ UNCHANGED << handler, payload, octokit, pullRequest, changedFilesData, idx, rawCode,
                    astReport, previousComments, feedback, log, outcome, repoState, fetch >>

\* pulls.listFiles resolves: fetchChangedFilesData maps the entries, and
\* aggregateASTReport(octokit, owner, repo, changedFilesData) starts.
ListFilesResolved(e, files) ==
    /\ pc[e] = "awaitListFiles"
    /\ Settle(e)
    /\ changedFilesData' = [changedFilesData EXCEPT ![e] = MapChangedFiles(files)]
    /\ rawCode' = [rawCode EXCEPT ![e] = << >>]
    /\ astReport' = [astReport EXCEPT ![e] = << >>]
    /\ idx' = [idx EXCEPT ![e] = 1]
    /\ pc' = [pc EXCEPT ![e] = "aggregating"]
    /\ UNCHANGED << handler, payload, octokit, pullRequest, comments, previousComments,
                    feedback, calls, log, outcome, repoState, fetch >>

\* The arguments both handlers pass to aggregateASTReport, in order.
AggregateArguments(e) ==
    << JsObject(octokit[e]), JsString(Owner(e)), JsString(Repo(e)),
       JsArray(changedFilesData[e]) >>

\* What the for-of loop of aggregateASTReport iterates over: the value its
\* parameter changedFilesData is bound to.
LoopItems(e) == ForOf(ParamValue(AggregateParams, AggregateArguments(e), "changedFilesData"))

FileError(path, error) ==
    [level |-> "error", msg |-> << "Error processing file ", path, ":" >>, error |-> error]

\* One iteration of the loop: the try block and its catch.
AggregateFile(e) ==
    /\ pc[e] = "aggregating"
    /\ idx[e] <= Len(LoopItems(e))
    /\ LET file == LoopItems(e)[idx[e]]
           path == FilenameOf(file)
       IN  IF ~InAggregateScope("octokit")
           THEN \* evaluating the argument octokit throws before any call is made
                /\ Console(e, FileError(path, ReferenceError("octokit")))
                /\ UNCHANGED << rawCode, astReport, calls, settled >>
           ELSE LET content == FetchFullFileContent(GetContent(path), path)
                IN  /\ Issue(e, [op |-> "repos.getContent", octokit |-> octokit[e],
                                 path |-> path, format |-> "raw"])
                    /\ Settle(e)
                    /\ IF ~content.ok
                       THEN /\ Console(e, FileError(path, content.error))
                            /\ UNCHANGED << rawCode, astReport >>
                       ELSE /\ rawCode' = [rawCode EXCEPT
                                              ![e] = @ \o Section(path, content.value)]
                            /\ IF ParseThrows(path)
                               THEN /\ Console(e, FileError(path, "ParseError"))
                                    /\ UNCHANGED astReport
                               ELSE /\ astReport' = [astReport EXCEPT
                                           ![e] = @ \o Section(path, AstString(content.value))]
                                    /\ UNCHANGED log
    /\ idx' = [idx EXCEPT ![e] = @ + 1]
    /\ UNCHANGED << pc, handler, payload, octokit, pullRequest, comments, changedFilesData,
                    previousComments, feedback, outcome, repoState, fetch >>

\* The loop is over: aggregateASTReport returns { rawCode, astReport } and the
\* handler goes on to its generator call (after building previousComments in
\* the comment handler).
AggregateReturn(e) ==
    /\ pc[e] = "aggregating"
    /\ UNCHANGED settled
    /\ idx[e] > Len(LoopItems(e))
    /\ IF handler[e] = "pr"
       THEN /\ Issue(e, [op |-> "generateCodeFeedback",
                         changedFilesData |-> changedFilesData[e],
                         rawCode |-> rawCode[e], astReport |-> astReport[e]])
            /\ UNCHANGED previousComments
       ELSE /\ previousComments' =
                   [previousComments EXCEPT ![e] = FormatComments(comments[e])]
            /\ Issue(e, [op |-> "generateFollowUpResponse",
                         pullRequest |-> pullRequest[e], userComment |-> UserComment(e),
                         previousComments |-> previousComments'[e],
                         changedFilesData |-> changedFilesData[e],
                         rawCode |-> rawCode[e], astReport |-> astReport[e]])
    /\ pc' = [pc EXCEPT ![e] = "awaitGenerate"]
    /\ UNCHANGED << handler, payload, octokit, pullRequest, comments, changedFilesData, idx,
                    rawCode, astReport, feedback, log, outcome, repoState, fetch >>

\* The generator resolves, with feedback kept in one module-level variable
\* that every invocation shares.
GeneratorResolvedSharedFeedback(e, text) ==
    /\ pc[e] = "awaitGenerate"
    /\ Settle(e)
    /\ feedback' = [f \in Events |-> text]
    /\ Issue(e, CreateCommentCall(octokit[e], Owner(e), Repo(e), PullNumber(e), text))
    /\ pc' = [pc EXCEPT ![e] = "awaitCreateComment"]
    /\ UNCHANGED << handler, payload, octokit, pullRequest, comments, changedFilesData, idx,
                    rawCode, astReport, previousComments, log, outcome, repoState, fetch >>

\* The generator resolves with a text: postComment issues createComment.
GeneratorResolved(e, text) ==
    /\ pc[e] = "awaitGenerate"
    /\ Settle(e)
    /\ feedback' = [feedback EXCEPT ![e] = text]
    /\ Issue(e, CreateCommentCall(octokit[e], Owner(e), Repo(e), PullNumber(e), text))
    /\ pc' = [pc EXCEPT ![e] = "awaitCreateComment"]
    /\ UNCHANGED << handler, payload, octokit, pullRequest, comments, changedFilesData, idx,
                    rawCode, astReport, previousComments, log, outcome, repoState, fetch >>

CreateCommentResolved(e) ==
    /\ pc[e] = "awaitCreateComment"
    /\ Settle(e)
    /\ Console(e, [level |-> "log",
                   msg |-> << IF handler[e] = "pr" THEN "Posted feedback comment on PR #"
                              ELSE "Posted follow up comment on PR #",
                              PullNumber(e) >>])
    /\ pc' = [pc EXCEPT ![e] = "done"]
    /\ UNCHANGED << handler, payload, locals, calls, outcome, repoState, fetch >>

\* The awaits inside the try block of a handler.
InTry == { "awaitGetPR", "awaitListComments", "awaitListFiles", "awaitGenerate",
           "awaitCreateComment" }

\* A catch block that posts the error as a comment before rethrowing.
CatchBlockPostsError(e, error) ==
    /\ IF IsErrorInstance(error)
       THEN Console(e, [level |-> "error", msg |-> << "Error handling PR event: ", error >>])
       ELSE UNCHANGED log
    /\ calls' = [calls EXCEPT ![e] = Append(@,
                    [op |-> "issues.createComment", octokit |-> octokit[e],
                     owner |-> payload[e].repository.owner.login,
                     repo |-> payload[e].repository.name, issue_number |-> 0,
                     body |-> error, apiVersion |-> ApiVersion])]
    /\ thrown' = [thrown EXCEPT ![e] = error]
    /\ pc' = [pc EXCEPT ![e] = "failed"]

\* A catch block that logs and returns normally.
CatchBlockSwallows(e, error) ==
    /\ IF IsErrorInstance(error)
       THEN Console(e, [level |-> "error", msg |-> << "Error handling PR event: ", error >>])
       ELSE UNCHANGED log
    /\ pc' = [pc EXCEPT ![e] = "done"]
    /\ UNCHANGED << thrown, calls >>

\* catch (error): log the message of an Error instance, then throw error.
CatchBlock(e, error) ==
    /\ IF IsErrorInstance(error)
       THEN Console(e, [level |-> "error", msg |-> << "Error handling PR event: ", error >>])
       ELSE UNCHANGED log
    /\ thrown' = [thrown EXCEPT ![e] = error]
    /\ pc' = [pc EXCEPT ![e] = "failed"]
    /\ UNCHANGED calls

\* A rejected createComment that is issued once more before giving up.
CallRejectedRetriesPublish(e, error) ==
    /\ pc[e] \in InTry
    /\ Settle(e)
    /\ IF pc[e] = "awaitCreateComment" /\ Len(calls[e]) > 0
            /\ Len(SelectSeq(calls[e], LAMBDA c : c.op = "issues.createComment")) = 1
       THEN /\ calls' = [calls EXCEPT ![e] = Append(@, calls[e][Len(calls[e])])]
            /\ UNCHANGED << pc, log, outcome >>
       ELSE /\ raised' = [raised EXCEPT ![e] = error]
            /\ failedAt' = [failedAt EXCEPT ![e] = pc[e]]
            /\ CatchBlock(e, error)
    /\ UNCHANGED << handler, payload, locals, repoState, fetch >>

\* A call awaited inside the try block rejects.
CallRejected(e, error) ==
    /\ pc[e] \in InTry
    /\ Settle(e)
    /\ raised' = [raised EXCEPT ![e] = error]
    /\ failedAt' = [failedAt EXCEPT ![e] = pc[e]]
    /\ CatchBlock(e, error)
    /\ UNCHANGED << handler, payload, locals, repoState, fetch >>

Next ==
    \E e \in Events :
        \/ HandlePullRequestEvent(e)
        \/ HandlePullRequestCommentEvent(e)
        \/ OctokitResolved(e)
        \/ \E error \in Thrown : OctokitRejected(e, error)
        \/ PullsGetResolved(e)
        \/ \E n \in ThreadLens : ListCommentsResolved(e, n)
        \/ \E files \in Listings : ListFilesResolved(e, files)
        \/ AggregateFile(e)
        \/ AggregateReturn(e)
        \/ \E text \in Texts : GeneratorResolved(e, text)
        \/ CreateCommentResolved(e)
        \/ \E error \in Thrown : CallRejected(e, error)

Spec == Init /\ [][Next]_vars

\* Every call gets its response or its rejection in the end, and the event
\* loop runs every continuation that is ready.  Every step of a handler moves
\* its position or its loop index.
position == << pc, idx >>

SpecLive == Spec /\ WF_position(Next)

\* ------------------------------------------------ two concurrent invocations
\* The host invokes a handler per webhook delivery without waiting for the
\* previous one: two invocations are in flight and their continuations
\* interleave at every await.  The responses are drawn from smaller sets.

ConcEvents == { 1, 2 }
ConcThreadLens == { 0, 2 }
ConcListings == { << >>, << ApiFileA >> }

InitConc ==
    /\ pc = [e \in Events |-> IF e \in ConcEvents THEN "idle" ELSE "absent"]
    /\ handler = [e \in Events |-> Undefined]
    /\ payload \in [Events -> Payloads]
    /\ payload[1] \in { PayloadOpened, PayloadComment }
    /\ payload[2] \in { PayloadComment, PayloadNoBody }
    /\ \A e \in Events : pc[e] = "absent" => payload[e] = PayloadBare
    /\ octokit = [e \in Events |-> 0]
    /\ pullRequest = [e \in Events |-> NoPullRequest]
    /\ comments = [e \in Events |-> << >>]
    /\ changedFilesData = [e \in Events |-> << >>]
    /\ idx = [e \in Events |-> 0]
    /\ rawCode = [e \in Events |-> << >>]
    /\ astReport = [e \in Events |-> << >>]
    /\ previousComments = [e \in Events |-> << >>]
    /\ feedback = [e \in Events |-> Undefined]
    /\ calls = [e \in Events |-> << >>]
    /\ log = [e \in Events |-> << >>]
    /\ raised = [e \in Events |-> NoError]
    /\ failedAt = [e \in Events |-> "nowhere"]
    /\ thrown = [e \in Events |-> NoError]
    /\ settled = [e \in Events |-> 0]
    /\ repoState = [content |-> [f \in FileNames |-> TextResponse], unparsable |-> {}]
    /\ fetch = NoFetch

NextConc ==
    \E e \in ConcEvents :
        \/ HandlePullRequestEvent(e)
        \/ HandlePullRequestCommentEvent(e)
        \/ OctokitResolved(e)
        \/ \E error \in ErrorInstances : OctokitRejected(e, error)
        \/ PullsGetResolved(e)
        \/ \E n \in ConcThreadLens : ListCommentsResolved(e, n)
        \/ \E files \in ConcListings : ListFilesResolved(e, files)
        \/ AggregateFile(e)
        \/ AggregateReturn(e)
        \/ \E text \in Texts : GeneratorResolved(e, text)
        \/ CreateCommentResolved(e)
        \/ \E error \in ErrorInstances : CallRejected(e, error)

SpecConc == InitConc /\ [][NextConc]_vars

\* ------------------------------------- fetchFullFileContent called directly
\* fetchFullFileContent is exported.  The platform's side of a content
\* request: the text of a file, encoded as UTF-8 and then as Base64 broken
\* into lines, or one of the other shapes a path can resolve to.

CodePoints == { 65, 233, 8364, 128512 }

FileTexts == UNION { [1..k -> CodePoints] : k \in 0..MaxTextLen }

Utf8Bytes(cp) ==
    IF cp < 128 THEN << cp >>
    ELSE IF cp < 2048 THEN << 192 + (cp \div 64), 128 + (cp % 64) >>
    ELSE IF cp < 65536
        THEN << 224 + (cp \div 4096), 128 + ((cp \div 64) % 64), 128 + (cp % 64) >>
    ELSE << 240 + (cp \div 262144), 128 + ((cp \div 4096) % 64), 128 + ((cp \div 64) % 64),
            128 + (cp % 64) >>

RECURSIVE Utf8Encode(_)
Utf8Encode(text) ==
    IF Len(text) = 0 THEN << >> ELSE Utf8Bytes(Head(text)) \o Utf8Encode(Tail(text))

RECURSIVE Base64Symbols(_)
Base64Symbols(bytes) ==
    IF Len(bytes) = 0 THEN << >>
    ELSE IF Len(bytes) = 1
        THEN << bytes[1] \div 4, (bytes[1] % 4) * 16, 64, 64 >>
    ELSE IF Len(bytes) = 2
        THEN << bytes[1] \div 4, (bytes[1] % 4) * 16 + (bytes[2] \div 16),
                (bytes[2] % 16) * 4, 64 >>
    ELSE << bytes[1] \div 4, (bytes[1] % 4) * 16 + (bytes[2] \div 16),
            (bytes[2] % 16) * 4 + (bytes[3] \div 64), bytes[3] % 64 >>
                \o Base64Symbols(SubSeq(bytes, 4, Len(bytes)))

\* A line break (symbol 65) after every WrapAt symbols and at the end.
RECURSIVE WrapLines(_)
WrapLines(symbols) ==
    IF Len(symbols) = 0 THEN << >>
    ELSE IF Len(symbols) <= WrapAt THEN symbols \o << 65 >>
    ELSE SubSeq(symbols, 1, WrapAt) \o << 65 >>
            \o WrapLines(SubSeq(symbols, WrapAt + 1, Len(symbols)))

EncodedFile(text) ==
    [kind |-> "object", type |-> "file", encoding |-> "base64",
     content |-> WrapLines(Base64Symbols(Utf8Encode(text)))]

RawFile(text) == [kind |-> "string", text |-> text]

\* A file object without content, and objects that are no files.
BareFileResponse == [kind |-> "object", type |-> "file", encoding |-> "none"]
SymlinkResponse == [kind |-> "object", type |-> "symlink", target |-> "a.ts"]
SubmoduleResponse == [kind |-> "object", type |-> "submodule"]

FetchInputs ==
    { [response |-> RawFile(t), original |-> t] : t \in FileTexts }
        \cup { [response |-> EncodedFile(t), original |-> t] : t \in FileTexts }
        \cup { [response |-> r, original |-> << >>] :
                  r \in { DirResponse, BareFileResponse, SymlinkResponse, SubmoduleResponse,
                          NotFoundResponse } }

FetchPaths == { "a.ts", "docs" }

InitFetch ==
    /\ pc = [e \in Events |-> "absent"]
    /\ handler = [e \in Events |-> Undefined]
    /\ payload = [e \in Events |-> PayloadBare]
    /\ octokit = [e \in Events |-> 0]
    /\ pullRequest = [e \in Events |-> NoPullRequest]
    /\ comments = [e \in Events |-> << >>]
    /\ changedFilesData = [e \in Events |-> << >>]
    /\ idx = [e \in Events |-> 0]
    /\ rawCode = [e \in Events |-> << >>]
    /\ astReport = [e \in Events |-> << >>]
    /\ previousComments = [e \in Events |-> << >>]
    /\ feedback = [e \in Events |-> Undefined]
    /\ calls = [e \in Events |-> << >>]
    /\ log = [e \in Events |-> << >>]
    /\ raised = [e \in Events |-> NoError]
    /\ failedAt = [e \in Events |-> "nowhere"]
    /\ thrown = [e \in Events |-> NoError]
    /\ settled = [e \in Events |-> 0]
    /\ repoState = [content |-> [f \in FileNames |-> TextResponse], unparsable |-> {}]
    /\ \E input \in FetchInputs, path \in FetchPaths :
           fetch = [state |-> "pending", path |-> path, response |-> input.response,
                    original |-> input.original]

\* repos.getContent has answered: the rest of fetchFullFileContent runs.
FetchReturns ==
    /\ fetch.state = "pending"
    /\ fetch' = [state |-> "done", path |-> fetch.path, response |-> fetch.response,
                 original |-> fetch.original,
                 result |-> FetchFullFileContent(fetch.response, fetch.path)]
    /\ UNCHANGED << pc, handler, payload, locals, calls, settled, log, outcome, repoState >>

NextFetch == FetchReturns

SpecFetch == InitFetch /\ [][NextFetch]_vars

\* ------------------------------------------------------------- properties

Active == { e \in Events : pc[e] # "absent" }

IsCreateComment(call) == call.op = "issues.createComment"
IsGenerator(call) == call.op \in { "generateCodeFeedback", "generateFollowUpResponse" }

CreateComments(e) == SelectSeq(calls[e], IsCreateComment)
GeneratorCalls(e) == SelectSeq(calls[e], IsGenerator)

\* The error reached the handler's caller: the handler's promise is rejected
\* with the very error the failed call carried.
ReachedCaller(e) ==
    /\ pc[e] = "failed"
    /\ raised[e] # NoError
    /\ thrown[e] = raised[e]

\* C1: in either handler, when the feedback generator call fails, no
\* createComment call is ever issued for the event and the generator's error
\* reaches the handler's caller.
C1_GeneratorFailureNoComment ==
    \A e \in Active :
        failedAt[e] = "awaitGenerate" =>
            /\ Len(CreateComments(e)) = 0
            /\ Len(GeneratorCalls(e)) = 1
            /\ ReachedCaller(e)

C1_Witness ==
    /\ \E e \in Active : handler[e] = "pr" /\ failedAt[e] = "awaitGenerate"
                            /\ pc[e] = "failed"

\* C2: an invocation that reaches done has issued exactly one createComment,
\* addressed to the owner, repository and number of its payload, whose body is
\* the text the generator returned; an invocation that failed before
\* publishing has issued none.
C2_OneCommentPerDoneEvent ==
    \A e \in Active :
        /\ pc[e] = "done" =>
              /\ Len(CreateComments(e)) = 1
              /\ LET c == CreateComments(e)[1]
                 IN  /\ c.owner = payload[e].repository.owner.login
                     /\ c.repo = payload[e].repository.name
                     /\ (handler[e] = "pr" /\ "pull_request" \in DOMAIN payload[e])
                            => c.issue_number = payload[e].pull_request.number
                     /\ (handler[e] = "comment" /\ "issue" \in DOMAIN payload[e])
                            => c.issue_number = payload[e].issue.number
                     /\ feedback[e] \in Texts
                     /\ c.body = feedback[e]
        /\ (pc[e] = "failed" /\ failedAt[e] # "awaitCreateComment")
              => Len(CreateComments(e)) = 0

C2_Witness ==
    \E e \in Active :
        /\ pc[e] = "done"
        /\ handler[e] = "comment"
        /\ "issue" \in DOMAIN payload[e]
        /\ Len(CreateComments(e)) = 1

\* What the platform and the parser would do with a changed file.
Resolves(path) == FetchFullFileContent(GetContent(path), path).ok
Succeeds(path) == Resolves(path) /\ ~ParseThrows(path)

ListedNames(e) == [i \in 1..Len(changedFilesData[e]) |-> changedFilesData[e][i].filename]

Range(seq) == { seq[i] : i \in 1..Len(seq) }

RECURSIVE IsSubsequence(_, _)
IsSubsequence(a, b) ==
    IF Len(a) = 0 THEN TRUE
    ELSE IF Len(b) = 0 THEN FALSE
    ELSE IF Head(a) = Head(b) THEN IsSubsequence(Tail(a), Tail(b))
    ELSE IsSubsequence(a, Tail(b))

\* aggregateASTReport has returned to the handler.
Aggregated(e) ==
    \/ pc[e] \in { "awaitGenerate", "awaitCreateComment", "done" }
    \/ pc[e] = "failed" /\ failedAt[e] \in { "awaitGenerate", "awaitCreateComment" }

\* C3: with two changed files of which one fails to resolve and the other
\* resolves and parses, rawCode and astReport hold the sections of exactly the
\* file that succeeded, the event has not failed in aggregation, and the
\* generator has been invoked.
C3_OneOfTwoFilesAggregated ==
    \A e \in Active :
        ( /\ Aggregated(e)
          /\ Len(changedFilesData[e]) = 2
          /\ Cardinality({ f \in Range(ListedNames(e)) : ~Resolves(f) }) = 1
          /\ Cardinality({ f \in Range(ListedNames(e)) : Succeeds(f) }) = 1 )
        => /\ SectionNames(rawCode[e]) = SelectSeq(ListedNames(e), Succeeds)
           /\ SectionNames(astReport[e]) = SelectSeq(ListedNames(e), Succeeds)
           /\ Len(SectionNames(rawCode[e])) = 1
           /\ Len(GeneratorCalls(e)) = 1

\* C4: whichever single file of the list fails to resolve or to parse,
\* aggregateASTReport returns and its result has the sections of all the other
\* files.
C4_OtherFilesKept ==
    \A e \in Active :
        Aggregated(e) =>
            \A i \in 1..Len(ListedNames(e)) :
                ~Succeeds(ListedNames(e)[i]) =>
                    \A j \in 1..Len(ListedNames(e)) :
                        (j # i /\ Succeeds(ListedNames(e)[j])) =>
                            /\ ListedNames(e)[j] \in Range(SectionNames(rawCode[e]))
                            /\ ListedNames(e)[j] \in Range(SectionNames(astReport[e]))

\* C5: the section filenames of rawCode and of astReport are a subsequence of
\* the filenames of the changed-file list, and equal to it when no file fails.
C5_SectionsInListOrder ==
    \A e \in Active :
        Aggregated(e) =>
            /\ IsSubsequence(SectionNames(rawCode[e]), ListedNames(e))
            /\ IsSubsequence(SectionNames(astReport[e]), ListedNames(e))
            /\ (\A f \in Range(ListedNames(e)) : Succeeds(f)) =>
                   /\ SectionNames(rawCode[e]) = ListedNames(e)
                   /\ SectionNames(astReport[e]) = ListedNames(e)

\* The handler's catch block logged the error.
HandlerLogged(e) ==
    \E i \in 1..Len(log[e]) :
        /\ log[e][i].level = "error"
        /\ Len(log[e][i].msg) = 2
        /\ log[e][i].msg = << "Error handling PR event: ", raised[e] >>

\* C6 as claimed: every exception of a handler, access resolution included,
\* is logged and re-raised unchanged to the invoker.
C6_EveryFailureLoggedAndReraised ==
    \A e \in Active :
        raised[e] # NoError => ReachedCaller(e) /\ HandlerLogged(e)

\* C6 as amended: every failure of a call the handler awaits reaches the
\* invoker unchanged and never becomes a normal return; it is logged exactly
\* when the call was awaited inside the try block (not access resolution) and
\* the error is an Error instance.
C6_ReraisedUnchangedLoggedInTry ==
    \A e \in Active :
        /\ raised[e] # NoError =>
              /\ ReachedCaller(e)
              /\ HandlerLogged(e) <=>
                     (failedAt[e] # "awaitOctokit" /\ raised[e] \in ErrorInstances)
        /\ pc[e] = "done" => raised[e] = NoError

C6_Witness ==
    \E e \in Active :
        /\ failedAt[e] = "awaitOctokit"
        /\ raised[e] \in ErrorInstances
        /\ pc[e] = "failed"
        /\ ~HandlerLogged(e)

\* C7: when createComment fails after the generator succeeded, the error
\* reaches the caller, and on every path one invocation calls createComment
\* at most once and the generator at most once.
C7_NoRetry ==
    \A e \in Active :
        /\ Len(CreateComments(e)) <= 1
        /\ Len(GeneratorCalls(e)) <= 1
        /\ failedAt[e] = "awaitCreateComment" =>
              /\ ReachedCaller(e)
              /\ feedback[e] \in Texts
              /\ Len(CreateComments(e)) = 1
              /\ Len(GeneratorCalls(e)) = 1

C7_Witness ==
    \E e \in Active :
        /\ failedAt[e] = "awaitCreateComment"
        /\ pc[e] = "failed"
        /\ handler[e] = "comment"

\* The transcripts handed to generateFollowUpResponse.
FollowUps(e) == SelectSeq(calls[e], LAMBDA c : c.op = "generateFollowUpResponse")

\* The comment the k-th entry of a transcript of m entries stands for.
WindowComment(e, m, k) == comments[e][Len(comments[e]) - m + k]

\* C8: the transcript passed to the follow-up generator holds the most recent
\* min(n, 30) of the n comments listed, oldest of them first.
C8_TranscriptIsLast30 ==
    \A e \in Active :
        \A i \in 1..Len(FollowUps(e)) :
            LET t == FollowUps(e)[i].previousComments
                n == Len(comments[e])
                m == IF n < 30 THEN n ELSE 30
            IN  /\ Len(t) = (IF m = 0 THEN 0 ELSE 7 * m - 1)
                /\ \A k \in 1..m : Entry(t, k) = FormatComment(WindowComment(e, m, k))
                /\ \A k \in 1..(m - 1) : t[7 * k] = "\n\n"

C8_Witness ==
    \E e \in Active :
        /\ Len(FollowUps(e)) = 1
        /\ Len(comments[e]) > 30
        /\ EntryCount(FollowUps(e)[1].previousComments) = 30

\* C9: a transcript has at most 30 entries, and the body of each entry is at
\* most 500 characters, the first ones of the comment's body, followed by at
\* most one marker.
C9_TranscriptBounded ==
    \A e \in Active :
        \A i \in 1..Len(FollowUps(e)) :
            LET t == FollowUps(e)[i].previousComments
                m == EntryCount(t)
            IN  /\ m <= 30
                /\ \A k \in 1..m :
                       LET c == WindowComment(e, m, k)
                           b == EntryBody(t, k)
                       IN  /\ Len(b) <= 500
                           /\ IF "body" \in DOMAIN c
                              THEN Len(b) <= Len(c.body) /\ b = SubSeq(c.body, 1, Len(b))
                              ELSE b = << >>
                           /\ EntryMarker(t, k) \in { "", "..." }

C9_Witness ==
    \E e \in Active :
        /\ Len(FollowUps(e)) = 1
        /\ LET t == FollowUps(e)[1].previousComments
           IN  /\ EntryCount(t) = 30
               /\ \E k \in 1..30 :
                      /\ Len(EntryBody(t, k)) = 500
                      /\ Len(WindowComment(e, 30, k).body) > 500

\* C10: an entry carries the marker "..." exactly when the body of its
\* comment is longer than 500 characters; a body of exactly 500 characters, an
\* empty body and a missing body get none.
C10_MarkerIffLonger ==
    \A e \in Active :
        \A i \in 1..Len(FollowUps(e)) :
            LET t == FollowUps(e)[i].previousComments
                m == EntryCount(t)
            IN  \A k \in 1..m :
                    LET c == WindowComment(e, m, k)
                    IN  (EntryMarker(t, k) = "...") <=>
                            ("body" \in DOMAIN c /\ Len(c.body) > 500)

C10_Witness ==
    \E e \in Active :
        /\ Len(FollowUps(e)) = 1
        /\ LET t == FollowUps(e)[1].previousComments
               m == EntryCount(t)
           IN  /\ \E k \in 1..m : /\ "body" \in DOMAIN WindowComment(e, m, k)
                                  /\ Len(WindowComment(e, m, k).body) = 500
                                  /\ EntryMarker(t, k) = ""
               /\ \E k \in 1..m : /\ "body" \in DOMAIN WindowComment(e, m, k)
                                  /\ Len(WindowComment(e, m, k).body) = 501
                                  /\ EntryMarker(t, k) = "..."
               /\ \E k \in 1..m : /\ "body" \notin DOMAIN WindowComment(e, m, k)
                                  /\ EntryMarker(t, k) = ""
               /\ \E k \in 1..m : /\ "body" \in DOMAIN WindowComment(e, m, k)
                                  /\ Len(WindowComment(e, m, k).body) = 0
                                  /\ EntryMarker(t, k) = ""

EntryPrefix(transcript, k) == transcript[7 * (k - 1) + 1]
EntryUsername(transcript, k) == transcript[7 * (k - 1) + 3]

\* C11: an entry is prefixed "[BOT RESPONSE]" exactly when the author of its
\* comment is "pga-github-app", and "[USER]" otherwise, also when the comment
\* has no author.
C11_BotLabelIffBotAuthor ==
    \A e \in Active :
        \A i \in 1..Len(FollowUps(e)) :
            LET t == FollowUps(e)[i].previousComments
                m == EntryCount(t)
            IN  \A k \in 1..m :
                    LET c == WindowComment(e, m, k)
                        byBot == "user" \in DOMAIN c /\ c.user.login = "pga-github-app"
                    IN  /\ EntryPrefix(t, k) \in { "[BOT RESPONSE]", "[USER]" }
                        /\ (EntryPrefix(t, k) = "[BOT RESPONSE]") <=> byBot

C11_Witness ==
    \E e \in Active :
        /\ Len(FollowUps(e)) = 1
        /\ LET t == FollowUps(e)[1].previousComments
               m == EntryCount(t)
           IN  /\ \E k \in 1..m : /\ "user" \in DOMAIN WindowComment(e, m, k)
                                  /\ WindowComment(e, m, k).user.login = "pga-github-app"
                                  /\ EntryPrefix(t, k) = "[BOT RESPONSE]"
               /\ \E k \in 1..m : /\ "user" \in DOMAIN WindowComment(e, m, k)
                                  /\ WindowComment(e, m, k).user.login = "alice"
                                  /\ EntryPrefix(t, k) = "[USER]"
               /\ \E k \in 1..m : /\ "user" \notin DOMAIN WindowComment(e, m, k)
                                  /\ EntryPrefix(t, k) = "[USER]"

\* C12: fetchFullFileContent throws the not-a-file error for a directory
\* listing and the unreadable-content error for a response that is neither
\* text nor an object with an encoded body, returning no string in either
\* case; a plain-text response is returned unchanged.
C12_FetchShapes ==
    fetch.state = "done" =>
        /\ fetch.response.kind = "array" =>
              /\ ~fetch.result.ok
              /\ fetch.result.error =
                     << "Expected a file but received a directory for path: ", fetch.path >>
        /\ (fetch.response.kind = "object" /\ "content" \notin DOMAIN fetch.response) =>
              /\ ~fetch.result.ok
              /\ fetch.result.error =
                     << "Unable to fetch file content as string for path: ", fetch.path >>
        /\ fetch.response.kind = "string" =>
              /\ fetch.result.ok
              /\ fetch.result.value = fetch.response.text

C12_Witness ==
    /\ fetch.state = "done"
    /\ fetch.response.kind = "array"
    /\ ~fetch.result.ok

\* The platform returned the file as an object with encoded content.
IsEncodedFile(response) ==
    /\ response.kind = "object"
    /\ response.type = "file"
    /\ "content" \in DOMAIN response

\* C13: for every file content, the empty one included, returned as an
\* encoded-content file object, fetchFullFileContent returns the original
\* text.
C13_RoundTrip ==
    (fetch.state = "done" /\ IsEncodedFile(fetch.response)) =>
        /\ fetch.result.ok
        /\ fetch.result.value = fetch.original

\* The round trip of every content that is not empty.
C13_RoundTripNonEmpty ==
    (fetch.state = "done" /\ IsEncodedFile(fetch.response) /\ Len(fetch.original) > 0) =>
        /\ fetch.result.ok
        /\ fetch.result.value = fetch.original

\* What identifies a call in the order of calls: its operation, and for a
\* content request also the path asked for.
CallLabel(call) ==
    IF call.op = "repos.getContent" THEN << call.op, call.path >> ELSE << call.op >>

CallLabels(e) == [i \in 1..Len(calls[e]) |-> CallLabel(calls[e][i])]

IsPrefix(s, t) == Len(s) <= Len(t) /\ s = SubSeq(t, 1, Len(s))

BeforeAggregation(e) ==
    << << "getInstallationOctokit" >> >>
        \o (IF handler[e] = "comment"
            THEN << << "pulls.get" >>, << "issues.listComments" >> >>
            ELSE << >>)
        \o << << "pulls.listFiles" >> >>

AfterAggregation(e) ==
    << << IF handler[e] = "comment" THEN "generateFollowUpResponse"
                                    ELSE "generateCodeFeedback" >>,
       << "issues.createComment" >> >>

ContentCalls(e) ==
    [i \in 1..Len(ListedNames(e)) |-> << "repos.getContent", ListedNames(e)[i] >>]

\* C14: the calls of one invocation follow the fixed order (access, then on
\* the follow-up path getPullRequest and listComments, then listChangedFiles,
\* then a content request for every changed file, then the generator, then
\* createComment); a call is issued only after every earlier one has
\* completed, and an invocation that is done has issued them all.
C14_FixedCallOrder ==
    \A e \in Active :
        pc[e] # "idle" =>
            LET expected == BeforeAggregation(e) \o ContentCalls(e) \o AfterAggregation(e)
            IN  /\ IsPrefix(CallLabels(e), expected)
                /\ settled[e] >= Len(calls[e]) - 1
                /\ pc[e] = "done" => CallLabels(e) = expected

\* The order the code does keep: the same without the content requests.
C14_OrderWithoutContentCalls ==
    \A e \in Active :
        pc[e] # "idle" =>
            LET expected == BeforeAggregation(e) \o AfterAggregation(e)
            IN  /\ IsPrefix(CallLabels(e), expected)
                /\ settled[e] >= Len(calls[e]) - 1
                /\ pc[e] = "done" => CallLabels(e) = expected
                /\ pc[e] \in { "done", "failed" } => settled[e] = Len(calls[e])

\* The call of operation op that invocation e issues, as its own payload and
\* the responses to its own earlier calls determine it.
OwnCall(e, op) ==
    CASE op = "getInstallationOctokit" -> [op |-> op, id |-> payload[e].installation.id]
      [] op = "pulls.get" ->
            [op |-> op, octokit |-> octokit[e], owner |-> Owner(e), repo |-> Repo(e),
             pull_number |-> PullNumber(e)]
      [] op = "issues.listComments" ->
            [op |-> op, octokit |-> octokit[e], owner |-> Owner(e), repo |-> Repo(e),
             issue_number |-> PullNumber(e)]
      [] op = "pulls.listFiles" -> ListFilesCall(e, octokit[e])
      [] op = "generateCodeFeedback" ->
            [op |-> op, changedFilesData |-> changedFilesData[e],
             rawCode |-> rawCode[e], astReport |-> astReport[e]]
      [] op = "generateFollowUpResponse" ->
            [op |-> op, pullRequest |-> pullRequest[e], userComment |-> UserComment(e),
             previousComments |-> FormatComments(comments[e]),
             changedFilesData |-> changedFilesData[e],
             rawCode |-> rawCode[e], astReport |-> astReport[e]]
      [] op = "issues.createComment" ->
            CreateCommentCall(payload[e].installation.id, payload[e].repository.owner.login,
                              payload[e].repository.name, PullNumber(e), feedback[e])
      [] OTHER -> [op |-> "none"]

OwnCallsOnly ==
    \A e \in Active : \A i \in 1..Len(calls[e]) : calls[e][i] = OwnCall(e, calls[e][i].op)

\* Invocation e takes a step; invocation f is left as it was.
Stepped(e) == pc'[e] # pc[e] \/ idx'[e] # idx[e]

Untouched(f) ==
    /\ pc'[f] = pc[f] /\ handler'[f] = handler[f] /\ payload'[f] = payload[f]
    /\ octokit'[f] = octokit[f] /\ pullRequest'[f] = pullRequest[f]
    /\ comments'[f] = comments[f] /\ changedFilesData'[f] = changedFilesData[f]
    /\ idx'[f] = idx[f] /\ rawCode'[f] = rawCode[f] /\ astReport'[f] = astReport[f]
    /\ previousComments'[f] = previousComments[f] /\ feedback'[f] = feedback[f]
    /\ calls'[f] = calls[f] /\ log'[f] = log[f] /\ settled'[f] = settled[f]
    /\ raised'[f] = raised[f] /\ failedAt'[f] = failedAt[f] /\ thrown'[f] = thrown[f]

\* C15: with two invocations interleaving at their awaits, every call an
\* invocation issues (the posted comment's body and target included) is
\* determined by its own payload and the responses to its own calls, and a
\* step of one invocation changes nothing of the other.
C15_Isolation ==
    /\ []OwnCallsOnly
    /\ [][\A e \in Events : Stepped(e) => \A f \in Events \ { e } : Untouched(f)]_vars

\* Both invocations are in flight and one publishes while the other is still
\* waiting for an earlier call.
C15_Witness ==
    /\ pc[1] = "awaitCreateComment"
    /\ pc[2] \in { "awaitListFiles", "awaitGenerate" }
    /\ payload[1] # payload[2]
    /\ Len(CreateComments(1)) = 1

\* Calls issued and not yet resolved or rejected.
Outstanding(e) == Len(calls[e]) - settled[e]

IsContentRequest(call) == call.op = "repos.getContent"

ContentPaths(e) ==
    LET requests == SelectSeq(calls[e], IsContentRequest)
    IN  [i \in 1..Len(requests) |-> requests[i].path]

\* C16: an invocation has at most one call outstanding and none when it is
\* done or failed; the changed files are resolved one at a time in listed
\* order, a file's content request being issued only when the files before it
\* have been processed, so that after aggregation one request per listed file
\* has been made, in order.
C16_OneAtATimeInListedOrder ==
    \A e \in Active :
        /\ Outstanding(e) \in { 0, 1 }
        /\ pc[e] \in { "done", "failed" } => Outstanding(e) = 0
        /\ pc[e] = "aggregating" =>
              /\ Outstanding(e) = 0
              /\ IsPrefix(ContentPaths(e), ListedNames(e))
        /\ Aggregated(e) => ContentPaths(e) = ListedNames(e)

\* The part the code keeps: one call outstanding at most, none at the end.
C16_OneOutstanding ==
    \A e \in Active :
        /\ Outstanding(e) \in { 0, 1 }
        /\ pc[e] \in { "done", "failed", "aggregating" } => Outstanding(e) = 0

\* The payload lacks the number the handler reads.
LacksNumber(e) ==
    \/ handler[e] = "pr" /\ "pull_request" \notin DOMAIN payload[e]
    \/ handler[e] = "comment" /\ "issue" \notin DOMAIN payload[e]

NumbersSent(e) ==
    { calls[e][i].pull_number :
          i \in { j \in 1..Len(calls[e]) : "pull_number" \in DOMAIN calls[e][j] } }
        \cup { calls[e][i].issue_number :
                   i \in { j \in 1..Len(calls[e]) : "issue_number" \in DOMAIN calls[e][j] } }

OpsIssued(e) == { calls[e][i].op : i \in 1..Len(calls[e]) }

\* C17: a handler whose payload lacks the PR number (the issue number on the
\* follow-up path) raises no error of its own: every failure is a rejected
\* call, and listFiles, pulls.get, listComments and createComment carry the
\* number 0; an invocation that is done has issued them all.
C17_MissingNumberIsZero ==
    \A e \in Active :
        LacksNumber(e) =>
            /\ NumbersSent(e) \subseteq { 0 }
            /\ pc[e] = "failed" =>
                  /\ raised[e] \in Thrown
                  /\ failedAt[e] \in InTry \cup { "awaitOctokit" }
            /\ pc[e] = "done" =>
                  /\ NumbersSent(e) = { 0 }
                  /\ { "pulls.listFiles", "issues.createComment" } \subseteq OpsIssued(e)
                  /\ handler[e] = "comment" =>
                         { "pulls.get", "issues.listComments" } \subseteq OpsIssued(e)

C17_Witness ==
    \E e \in Active :
        /\ LacksNumber(e)
        /\ handler[e] = "pr"
        /\ "issue" \in DOMAIN payload[e]
        /\ pc[e] = "done"
        /\ CreateComments(e)[1].issue_number = 0

\* C18: the accumulators only grow, by the section of the file of the
\* iteration: nothing for a file that fails to resolve, a section in rawCode
\* only for a file that resolves and fails to parse, a section in each for a
\* file that does both.  So the filenames of astReport are a subsequence of
\* those of rawCode, and after aggregation rawCode holds the files that
\* resolve and astReport those that also parse.
C18_ThreeEffectsPerFile ==
    \A e \in Active :
        /\ IsSubsequence(SectionNames(astReport[e]), SectionNames(rawCode[e]))
        /\ IsPrefix(SectionNames(rawCode[e]), SelectSeq(ListedNames(e), Resolves))
        /\ IsPrefix(SectionNames(astReport[e]), SelectSeq(ListedNames(e), Succeeds))
        /\ Aggregated(e) =>
              /\ SectionNames(rawCode[e]) = SelectSeq(ListedNames(e), Resolves)
              /\ SectionNames(astReport[e]) = SelectSeq(ListedNames(e), Succeeds)

\* What the code keeps of it: the accumulators never differ, being empty.
C18_AccumulatorsStayEmpty ==
    \A e \in Active : rawCode[e] = << >> /\ astReport[e] = << >>

\* C19: building the transcript never fails the invocation.  Whatever list
\* listComments returned, a follow-up invocation whose aggregation has
\* returned has issued its generator call with a transcript: empty for the
\* empty list, and with "unknown" as the author of a comment without author
\* and an empty body for a comment without body; a failed invocation has
\* failed at one of its awaited calls.
C19_ContextBuildingTotal ==
    \A e \in Active :
        /\ pc[e] = "failed" => failedAt[e] \in InTry \cup { "awaitOctokit" }
        /\ (handler[e] = "comment" /\ Aggregated(e)) =>
              /\ Len(FollowUps(e)) = 1
              /\ LET t == FollowUps(e)[1].previousComments
                     m == EntryCount(t)
                 IN  /\ t = previousComments[e]
                     /\ m = Min(Len(comments[e]), 30)
                     /\ Len(comments[e]) = 0 => t = << >>
                     /\ \A k \in 1..m :
                            LET c == WindowComment(e, m, k)
                            IN  /\ "user" \notin DOMAIN c => EntryUsername(t, k) = "unknown"
                                /\ "body" \notin DOMAIN c =>
                                       /\ EntryBody(t, k) = << >>
                                       /\ EntryMarker(t, k) = ""

\* Both cases happen: an empty thread, and a thread with a comment lacking
\* its author and one lacking its body.
C19_Witness ==
    /\ \E e \in Active :
          /\ handler[e] = "comment" /\ pc[e] = "awaitGenerate"
          /\ Len(FollowUps(e)) = 1
          /\ LET t == FollowUps(e)[1].previousComments
                 m == EntryCount(t)
             IN  /\ \E k \in 1..m : /\ "user" \notin DOMAIN WindowComment(e, m, k)
                                    /\ EntryUsername(t, k) = "unknown"
                 /\ \E k \in 1..m : /\ "body" \notin DOMAIN WindowComment(e, m, k)
                                    /\ EntryBody(t, k) = << >>

\* The empty thread yields the empty transcript and the generator is called.
C19_EmptyThreadReached ==
    \E e \in Active :
        /\ handler[e] = "comment" /\ pc[e] = "awaitGenerate"
        /\ comments[e] = << >>
        /\ Len(FollowUps(e)) = 1
        /\ FollowUps(e)[1].previousComments = << >>

AwaitStates == InTry \cup { "awaitOctokit" }

Terminal(e) == pc[e] \in { "done", "failed" }

\* Iterations of the loop of aggregateASTReport made so far.
Iterations(e) == IF idx[e] = 0 THEN 0 ELSE idx[e] - 1

\* C20 (the loop): the per-file loop visits each changed file exactly once
\* and issues at most one content request per file, so that aggregation ends
\* after as many iterations as there are files.
C20_LoopVisitsEachFileOnce ==
    \A e \in Active :
        /\ Iterations(e) <= Len(changedFilesData[e])
        /\ Len(ContentPaths(e)) <= Len(changedFilesData[e])
        /\ Aggregated(e) => Iterations(e) = Len(changedFilesData[e])

\* C20 (termination): when every call is answered, every invocation ends
\* done or failed.
C20_Terminates == \A e \in Events : (pc[e] # "absent") ~> Terminal(e)

\* C20 (no timeout): an invocation leaves the state in which it awaits a
\* call only when that call resolves or rejects.
C20_NoTimeout ==
    [][\A e \in Events :
           (pc[e] \in AwaitStates /\ pc'[e] # pc[e]) => settled'[e] = settled[e] + 1]_vars

====
